---- MODULE Spec2Model ----
(***************************************************************************)
(* Model of src/src/negbin_fit/helpers.py: the density builders, the       *)
(* mixture combiner, the count-table builder and the goodness-of-fit       *)
(* scorer.                                                                 *)
(*                                                                         *)
(* Every function of the module is a call made by an outer fitting layer.  *)
(* A state is what that caller can observe after one call:                 *)
(*   stats_df  the caller's statistics table (a pandas DataFrame),         *)
(*   call      the function called last and its arguments,                 *)
(*   frame     the locals of that call the properties speak about,         *)
(*   ret       what the call returned, or the exception it raised.         *)
(* The module is synchronous and single-threaded: the caller makes one     *)
(* call at a time and takes its result (Return) before the next call.      *)
(*                                                                         *)
(* Floating point values are modelled as exact rationals together with     *)
(* the IEEE special values numpy produces (nan, +inf, -inf); a value in    *)
(* log space is kept as the logarithm of a rational.  Rounding error is    *)
(* outside the model.                                                      *)
(***************************************************************************)
EXTENDS Integers, Sequences, FiniteSets, TLC

VARIABLES stats_df, call, frame, ret

vars == <<stats_df, call, frame, ret>>

(***************************************************************************)
(* Bounds of the model.                                                    *)
(***************************************************************************)
\* largest allele count of a table row and largest max_tr
MaxTr == 1
\* most rows of a statistics table
MaxRows == 2
\* probabilities are pn / PDen, 0 < pn < PDen
PDen == 4
\* mixture weights are wn / WDen, 0 <= wn <= WDen
WDen == 2
\* largest shape parameter r of a direct density call
MaxR == 2
\* largest size_of_counts (or b) of a direct density call
MaxSize == 2
\* longest array handed to combine_densities or calculate_gof_for_point_fit
MaxLen == 2
\* largest number_of_params
MaxParams == 1

(***************************************************************************)
(* Exact arithmetic standing for float64.                                  *)
(***************************************************************************)
Abs(x) == IF x < 0 THEN -x ELSE x

Max(a, b) == IF a >= b THEN a ELSE b

Min(a, b) == IF a <= b THEN a ELSE b

RECURSIVE GCD(_, _)
GCD(a, b) == IF b = 0 THEN a ELSE GCD(b, a % b)

\* the rational n / d (d # 0), in lowest terms with a positive denominator
Num(n, d) ==
    LET g == GCD(Abs(n), Abs(d))
        s == IF d < 0 THEN -1 ELSE 1
    IN  [t |-> "num", n |-> (s * n) \div g, d |-> (s * d) \div g]

\* Python's None, where an argument may be omitted
None == [t |-> "None"]

\* a call's outcome: the value returned, or the exception raised
Ok(v) == [t |-> "ok", v |-> v]

\* the list get_counts_dist_from_df returns
OkDist(dist) == [t |-> "ok", dist |-> dist]

\* the pair calculate_overall_gof returns
OkGofs(point_gofs, overall_gof) ==
    [t |-> "ok", point_gofs |-> point_gofs, overall_gof |-> overall_gof]

Raise(e) == [t |-> "raise", exc |-> e]

NaN == [t |-> "nan"]

PInf == [t |-> "inf"]

NInf == [t |-> "-inf"]

Zero == Num(0, 1)

One == Num(1, 1)

IsNum(x) == x.t = "num"

FAdd(x, y) ==
    LET g == GCD(x.d, y.d)
        l == (x.d \div g) * y.d
    IN  Num(x.n * (l \div x.d) + y.n * (l \div y.d), l)

FNeg(x) == [t |-> "num", n |-> -x.n, d |-> x.d]

FSub(x, y) == FAdd(x, FNeg(y))

FMul(x, y) ==
    LET g1 == GCD(Abs(x.n), y.d)
        g2 == GCD(Abs(y.n), x.d)
    IN  Num((x.n \div g1) * (y.n \div g2), (x.d \div g2) * (y.d \div g1))

\* numpy's float64 division: a zero divisor gives nan or an infinity (and a
\* RuntimeWarning), never an exception
FDiv(x, y) ==
    IF y.n = 0
    THEN IF x.n = 0 THEN NaN ELSE IF x.n > 0 THEN PInf ELSE NInf
    ELSE LET g1 == GCD(Abs(x.n), Abs(y.n))
             g2 == GCD(x.d, y.d)
         IN  Num((x.n \div g1) * (y.d \div g2), (x.d \div g2) * (y.n \div g1))

RECURSIVE FPow(_, _)
FPow(x, k) == IF k <= 0 THEN One ELSE FMul(x, FPow(x, k - 1))

\* np.log / logpmf of a rational: the logarithm is kept as a term
FLog(x) ==
    IF x.n = 0 THEN NInf
    ELSE IF x.n < 0 THEN NaN
    ELSE [t |-> "log", n |-> x.n, d |-> x.d]

\* a - b for two values in log space
FLogSub(a, b) ==
    IF a.t = "nan" \/ b.t = "nan" THEN NaN
    ELSE IF b.t = "-inf" THEN (IF a.t = "-inf" THEN NaN ELSE PInf)
    ELSE IF a.t = "-inf" THEN NInf
    ELSE FLog(FDiv(Num(a.n, a.d), Num(b.n, b.d)))

\* the sum of a[lo..hi] of an array of rationals
RECURSIVE FSum(_, _, _)
FSum(a, lo, hi) == IF hi < lo THEN Zero ELSE FAdd(FSum(a, lo, hi - 1), a[hi])

\* ndarray.sum() of a float array indexed 0..n-1: nan and inf propagate
ArraySum(a) ==
    LET idx == DOMAIN a
    IN  IF \E k \in idx : a[k].t = "nan" THEN NaN
        ELSE IF \E k \in idx : a[k].t = "inf" THEN
                 (IF \E k \in idx : a[k].t = "-inf" THEN NaN ELSE PInf)
        ELSE IF \E k \in idx : a[k].t = "-inf" THEN NInf
        ELSE FSum(a, 0, Cardinality(idx) - 1)

RECURSIVE Binom(_, _)
Binom(n, k) ==
    IF k < 0 \/ k > n THEN 0
    ELSE IF k = 0 THEN 1
    ELSE (Binom(n - 1, k - 1) * n) \div k

(***************************************************************************)
(* scipy.stats distributions used by the builders.                         *)
(***************************************************************************)
\* st.nbinom(r, q).pmf(k)
nbinom_pmf(r, q, k) ==
    IF k < 0 THEN Zero
    ELSE FMul(Num(Binom(k + r - 1, k), 1),
              FMul(FPow(q, r), FPow(FSub(One, q), k)))

\* st.nbinom(r, q).cdf(k)
RECURSIVE nbinom_cdf(_, _, _)
nbinom_cdf(r, q, k) ==
    IF k < 0 THEN Zero ELSE FAdd(nbinom_cdf(r, q, k - 1), nbinom_pmf(r, q, k))

\* st.geom(q).pmf(k): support 1, 2, ...
geom_pmf(q, k) ==
    IF k < 1 THEN Zero ELSE FMul(FPow(FSub(One, q), k - 1), q)

\* st.geom(q).cdf(k) = 1 - (1 - q)^k
geom_cdf(q, k) ==
    IF k < 1 THEN Zero ELSE FSub(One, FPow(FSub(One, q), k))

(***************************************************************************)
(* Density builders.                                                       *)
(***************************************************************************)
Probs == {Num(pn, PDen) : pn \in 1..(PDen - 1)}

Weights == {Num(wn, WDen) : wn \in 0..WDen}

\* the normalizer of make_negative_binom_density with cdf(left_most) in
\* place of cdf(left_most - 1)
negative_binom_norm_off_by_one(r, p, w, size_of_counts, left_most, p2) ==
    FAdd(FMul(FSub(nbinom_cdf(r, p2, size_of_counts),
                   IF left_most >= 1 THEN nbinom_cdf(r, p2, left_most) ELSE Zero),
              w),
         FMul(FSub(nbinom_cdf(r, FSub(One, p), size_of_counts),
                   IF left_most >= 1 THEN nbinom_cdf(r, FSub(One, p), left_most)
                   ELSE Zero),
              FSub(One, w)))

\* negative_binom_norm of make_negative_binom_density; p2 is already
\* defaulted, dist1 = nbinom(r, 1 - (1 - p2)), dist2 = nbinom(r, 1 - p)
negative_binom_norm(r, p, w, size_of_counts, left_most, p2) ==
    FAdd(FMul(FSub(nbinom_cdf(r, p2, size_of_counts),
                   IF left_most >= 1 THEN nbinom_cdf(r, p2, left_most - 1) ELSE Zero),
              w),
         FMul(FSub(nbinom_cdf(r, FSub(One, p), size_of_counts),
                   IF left_most >= 1 THEN nbinom_cdf(r, FSub(One, p), left_most - 1)
                   ELSE Zero),
              FSub(One, w)))

\* p2 is None or a probability
make_negative_binom_density(r, p, w, size_of_counts, left_most, p2) ==
    LET q2 == IF p2.t = "None" THEN p ELSE p2
        norm == negative_binom_norm(r, p, w, size_of_counts, left_most, q2)
    IN  [k \in 0..size_of_counts |->
            IF k >= left_most
            THEN IF norm.n # 0
                 THEN FDiv(FAdd(FMul(w, nbinom_pmf(r, q2, k)),
                                FMul(FSub(One, w), nbinom_pmf(r, FSub(One, p), k))),
                           norm)
                 ELSE Zero
            ELSE Zero]

cover_negative_binom_norm(r, p, size_of_counts, left_most) ==
    FSub(nbinom_cdf(r, FSub(One, p), size_of_counts),
         IF left_most >= 1 THEN nbinom_cdf(r, FSub(One, p), left_most - 1) ELSE Zero)

make_cover_negative_binom_density(r, p, size_of_counts, left_most, log, draw_rest) ==
    LET norm == cover_negative_binom_norm(r, p, size_of_counts, left_most)
        f(k) == IF log THEN FLog(nbinom_pmf(r, FSub(One, p), k))
                ELSE nbinom_pmf(r, FSub(One, p), k)
        arr == [k \in 0..size_of_counts |->
                   IF k >= left_most \/ draw_rest THEN f(k)
                   ELSE IF log THEN NInf ELSE Zero]
    IN  [k \in 0..size_of_counts |->
            IF log THEN FLogSub(arr[k], FLog(norm)) ELSE FDiv(arr[k], norm)]

geom_norm(p, a, b) ==
    FSub(geom_cdf(FSub(One, p), b),
         IF a >= 1 THEN geom_cdf(FSub(One, p), a - 1) ELSE Zero)

make_geom_dens(p, a, b, draw_rest) ==
    LET norm == geom_norm(p, a, b)
        arr == [k \in 0..b |->
                   IF k >= a \/ draw_rest THEN geom_pmf(FSub(One, p), k) ELSE Zero]
    IN  [k \in 0..b |-> FDiv(arr[k], norm)]

(***************************************************************************)
(* Mixture combiner.                                                       *)
(***************************************************************************)
\* combine_densities normalizing the negative binomial part by its own mass
combine_densities_own_mass(negbin_dens, geom_dens, w, only_negbin) ==
    LET part == [k \in DOMAIN negbin_dens |-> FMul(FSub(One, w), negbin_dens[k])]
        comb_dens == [k \in DOMAIN negbin_dens |->
                         FAdd(FMul(w, geom_dens[k]), part[k])]
    IN  IF only_negbin
        THEN [k \in DOMAIN negbin_dens |-> FDiv(part[k], ArraySum(part))]
        ELSE [k \in DOMAIN negbin_dens |-> FDiv(comb_dens[k], ArraySum(part))]

\* frac, p and allele_tr are read only by the commented-out correction
combine_densities(negbin_dens, geom_dens, w, only_negbin) ==
    LET comb_dens == [k \in DOMAIN negbin_dens |->
                         FAdd(FMul(w, geom_dens[k]),
                              FMul(FSub(One, w), negbin_dens[k]))]
        total == ArraySum(comb_dens)
    IN  IF only_negbin
        THEN [k \in DOMAIN negbin_dens |->
                 FDiv(FMul(FSub(One, w), negbin_dens[k]), total)]
        ELSE [k \in DOMAIN negbin_dens |-> FDiv(comb_dens[k], total)]

\* entries of the arrays handed to combine_densities
DensValues == {Zero, Num(1, 4), Num(1, 2)}

DensArrays(n) == [0..(n - 1) -> DensValues]

(***************************************************************************)
(* Calls of the density builders and of the combiner.                      *)
(***************************************************************************)
NoTable == [columns |-> {"ref", "alt", "counts"}, rows |-> << >>]

NoCall == [op |-> "none"]

NoFrame == [t |-> "none"]

NoRet == [t |-> "none"]

Idle == call.op = "none"

InitDens ==
    /\ stats_df = NoTable
    /\ call = NoCall
    /\ frame = NoFrame
    /\ ret = NoRet

\* the caller takes the result; the table it owns stays as the call left it
Return ==
    /\ ~Idle
    /\ call' = NoCall
    /\ frame' = NoFrame
    /\ ret' = NoRet
    /\ UNCHANGED stats_df

MakeNegativeBinomDensity ==
    /\ Idle
    /\ \E r \in 1..MaxR, p \in Probs, w \in Weights, size \in 0..MaxSize,
       p2 \in {None} \cup Probs :
      \E left \in 0..(size + 2) :
        /\ call' = [op |-> "make_negative_binom_density", r |-> r, p |-> p, w |-> w,
                    size_of_counts |-> size, left_most |-> left, p2 |-> p2]
        /\ frame' = [norm |-> negative_binom_norm(r, p, w, size, left,
                                                  IF p2.t = "None" THEN p ELSE p2)]
        /\ ret' = Ok(make_negative_binom_density(r, p, w, size, left, p2))
        /\ UNCHANGED stats_df

MakeCoverNegativeBinomDensity ==
    /\ Idle
    /\ \E r \in 1..MaxR, p \in Probs, size \in 0..MaxSize,
       log \in BOOLEAN, draw_rest \in BOOLEAN :
      \E left \in 0..(size + 2) :
        /\ call' = [op |-> "make_cover_negative_binom_density", r |-> r, p |-> p,
                    size_of_counts |-> size, left_most |-> left,
                    log |-> log, draw_rest |-> draw_rest]
        /\ frame' = [norm |-> cover_negative_binom_norm(r, p, size, left)]
        /\ ret' = Ok(make_cover_negative_binom_density(r, p, size, left, log,
                                                        draw_rest))
        /\ UNCHANGED stats_df

MakeGeomDens ==
    /\ Idle
    /\ \E p \in Probs, b \in 0..MaxSize, draw_rest \in BOOLEAN :
      \E a \in 0..(b + 2) :
        /\ call' = [op |-> "make_geom_dens", p |-> p, a |-> a, b |-> b,
                    draw_rest |-> draw_rest]
        /\ frame' = [norm |-> geom_norm(p, a, b)]
        /\ ret' = Ok(make_geom_dens(p, a, b, draw_rest))
        /\ UNCHANGED stats_df

CombineDensities ==
    /\ Idle
    /\ \E n \in 1..MaxLen, w \in Weights, only_negbin \in BOOLEAN :
      \E negbin_dens \in DensArrays(n), geom_dens \in DensArrays(n) :
        /\ call' = [op |-> "combine_densities", negbin_dens |-> negbin_dens,
                    geom_dens |-> geom_dens, w |-> w, only_negbin |-> only_negbin]
        /\ frame' = [norm |-> ArraySum([k \in 0..(n - 1) |->
                                  FAdd(FMul(w, geom_dens[k]),
                                       FMul(FSub(One, w), negbin_dens[k]))])]
        /\ ret' = Ok(combine_densities(negbin_dens, geom_dens, w, only_negbin))
        /\ UNCHANGED stats_df

NextDens ==
    \/ MakeNegativeBinomDensity
    \/ MakeCoverNegativeBinomDensity
    \/ MakeGeomDens
    \/ CombineDensities
    \/ Return

SpecDens == InitDens /\ [][NextDens]_vars

(***************************************************************************)
(* Goodness-of-fit scorer.                                                 *)
(***************************************************************************)
\* rmsea_gof: the score sqrt(max(stat - df, 0) / den) is kept as a term, den
\* being df * (norm - 1); a zero den is a ZeroDivisionError for Python
\* numbers and nan or inf for numpy scalars
rmsea_gof(stat, df, norm) ==
    IF norm <= 1 THEN Zero
    ELSE IF df * (norm - 1) = 0 THEN [t |-> "div0", stat |-> stat, df |-> df]
    ELSE [t |-> "sqrt", stat |-> stat, df |-> df, den |-> df * (norm - 1)]

\* the stop index of the slice a[:stop] of an array of length n
SliceStop(n, stop) == IF stop < 0 THEN Max(n + stop, 0) ELSE Min(stop, n)

\* observed = counts_array.copy(); observed[:left_most] = 0
point_fit_observed(counts_array, left_most) ==
    LET n == Cardinality(DOMAIN counts_array)
    IN  [i \in DOMAIN counts_array |->
            IF i < SliceStop(n, left_most) THEN 0 ELSE counts_array[i]]

\* idxs = (observed != 0) & (expected != 0)
point_fit_idxs(observed, expected) ==
    {i \in DOMAIN observed : observed[i] # 0 /\ expected[i] # 0}

\* stat = 2 * sum(observed[idxs] * log(observed[idxs] / expected[idxs])),
\* kept as the term of its summands
point_fit_stat(observed, expected, idxs) ==
    [t |-> "2sum", terms |-> {<<i, observed[i], expected[i]>> : i \in idxs}]

\* calculate_gof_for_point_fit without the zeroing of observed[:left_most]
calculate_gof_for_point_fit_no_zeroing(counts_array, expected, norm, number_of_params, left_most) ==
    LET observed == counts_array
        idxs == point_fit_idxs(observed, expected)
    IN  IF Cardinality(idxs) <= number_of_params + 1 THEN Zero
        ELSE rmsea_gof(point_fit_stat(observed, expected, idxs),
                       Cardinality(idxs) - 1 - number_of_params, norm)

\* calculate_gof_for_point_fit with < in place of <= in the guard
calculate_gof_for_point_fit_strict(counts_array, expected, norm, number_of_params, left_most) ==
    LET observed == point_fit_observed(counts_array, left_most)
        idxs == point_fit_idxs(observed, expected)
    IN  IF Cardinality(idxs) < number_of_params + 1 THEN Zero
        ELSE rmsea_gof(point_fit_stat(observed, expected, idxs),
                       Cardinality(idxs) - 1 - number_of_params, norm)

calculate_gof_for_point_fit(counts_array, expected, norm, number_of_params, left_most) ==
    LET observed == point_fit_observed(counts_array, left_most)
        idxs == point_fit_idxs(observed, expected)
    IN  IF Cardinality(idxs) <= number_of_params + 1 THEN Zero
        ELSE rmsea_gof(point_fit_stat(observed, expected, idxs),
                       Cardinality(idxs) - 1 - number_of_params, norm)

\* arguments of the direct calls of the scorer
StatValues == {Zero, Num(5, 2)}

NormValues == {0, 1, 2, 7}

ObsValues == {0, 1, 6}

ExpValues == {0, 3}

RmseaGof ==
    /\ Idle
    /\ \E stat \in StatValues, df \in (-1)..(MaxParams + 1), norm \in NormValues :
        /\ call' = [op |-> "rmsea_gof", stat |-> stat, df |-> df, norm |-> norm]
        /\ frame' = NoFrame
        /\ ret' = Ok(rmsea_gof(stat, df, norm))
        /\ UNCHANGED stats_df

CalculateGofForPointFit ==
    /\ Idle
    /\ \E n \in 1..MaxLen, norm \in NormValues, number_of_params \in 0..MaxParams :
      \E counts_array \in [0..(n - 1) -> ObsValues],
         expected \in [0..(n - 1) -> ExpValues],
         left_most \in (-1)..(n + 1) :
        /\ call' = [op |-> "calculate_gof_for_point_fit",
                    counts_array |-> counts_array, expected |-> expected,
                    norm |-> norm, number_of_params |-> number_of_params,
                    left_most |-> left_most]
        /\ frame' = [observed |-> point_fit_observed(counts_array, left_most),
                     idxs |-> point_fit_idxs(
                                  point_fit_observed(counts_array, left_most),
                                  expected)]
        /\ ret' = Ok(calculate_gof_for_point_fit(counts_array, expected, norm,
                                                 number_of_params, left_most))
        /\ UNCHANGED stats_df

NextGof ==
    \/ RmseaGof
    \/ CalculateGofForPointFit
    \/ Return

SpecGof == InitDens /\ [][NextGof]_vars

(***************************************************************************)
(* Count-table builder.                                                    *)
(***************************************************************************)
\* counts of the rows of a statistics table
CountValues == {1, 6}

Rows == [ref : 0..MaxTr, alt : 0..MaxTr, counts : CountValues]

RowKey(row) == (row.ref * (MaxTr + 1) + row.alt) * 8 + row.counts

\* t with row appended, when that keeps the rows in RowKey order
Extensions(t) ==
    {Append(t, row) :
        row \in {r \in Rows : Len(t) = 0 \/ RowKey(t[Len(t)]) <= RowKey(r)}}

\* the row sequences of at most n rows, in nondecreasing RowKey order
RECURSIVE SortedRows(_)
SortedRows(n) ==
    IF n = 0 THEN {<< >>}
    ELSE LET shorter == SortedRows(n - 1)
         IN  shorter \cup UNION {Extensions(t) : t \in {u \in shorter : Len(u) = n - 1}}

\* the tables read_stats_df hands over: exactly the columns ref, alt and
\* counts, integer alleles.  No function of the module reads the order of
\* the rows (every access is a boolean mask), so one order per table is kept.
Tables ==
    {[columns |-> {"ref", "alt", "counts"}, rows |-> rows] :
        rows \in SortedRows(MaxRows)}

RECURSIVE SumCounts(_, _)
SumCounts(rows, sel) ==
    IF sel = {} THEN 0
    ELSE LET i == CHOOSE i \in sel : TRUE
         IN  rows[i].counts + SumCounts(rows, sel \ {i})

\* stats_df['cover'] = stats_df['ref'] + stats_df['alt'], done in place on
\* the caller's DataFrame
RECURSIVE CoverRows(_, _)
CoverRows(rows, n) ==
    IF n = 0 THEN << >>
    ELSE Append(CoverRows(rows, n - 1),
                [ref |-> rows[n].ref, alt |-> rows[n].alt,
                 counts |-> rows[n].counts,
                 cover |-> rows[n].ref + rows[n].alt])

with_cover(df) ==
    [columns |-> df.columns \cup {"cover"},
     rows |-> CoverRows(df.rows, Len(df.rows))]

RECURSIVE MaxCover(_, _)
MaxCover(rows, n) ==
    IF n = 1 THEN rows[1].cover ELSE Max(rows[n].cover, MaxCover(rows, n - 1))

\* the list returned by get_counts_dist_from_df, df holding the cover column;
\* the max() of an empty column is nan, which range() rejects
get_counts_dist_from_df(df) ==
    IF Len(df.rows) = 0 THEN Raise("TypeError")
    ELSE OkDist([cover \in 0..(MaxCover(df.rows, Len(df.rows)) - 1) |->
                    SumCounts(df.rows,
                              {i \in 1..Len(df.rows) : df.rows[i].cover = cover})])

\* stats_df[(stats_df['ref'] == k) & (stats_df['alt'] == m)]
Slice(df, k, m) ==
    {i \in 1..Len(df.rows) : df.rows[i].ref = k /\ df.rows[i].alt = m}

\* stats_df_to_numpy looping over range(min_tr, max_tr)
stats_df_to_numpy_exclusive(df, min_tr, max_tr) ==
    IF \E k \in min_tr..(max_tr - 1), m \in min_tr..(max_tr - 1) :
           Cardinality(Slice(df, k, m)) > 1
    THEN Raise("ValueError")
    ELSE Ok([k \in 0..max_tr |-> [m \in 0..max_tr |->
                IF k \in min_tr..(max_tr - 1) /\ m \in min_tr..(max_tr - 1)
                   /\ Slice(df, k, m) # {}
                THEN df.rows[CHOOSE i \in Slice(df, k, m) : TRUE].counts
                ELSE 0]])

\* stats_df_to_numpy writing the first row of a slice
stats_df_to_numpy_first(df, min_tr, max_tr) ==
    Ok([k \in 0..max_tr |-> [m \in 0..max_tr |->
           IF k \in min_tr..max_tr /\ m \in min_tr..max_tr /\ Slice(df, k, m) # {}
           THEN df.rows[CHOOSE i \in Slice(df, k, m) :
                            \A j \in Slice(df, k, m) : i <= j].counts
           ELSE 0]])

\* rv[k, m] = slice['counts'] stores the one value of a one-row slice and
\* raises ValueError (setting an array element with a sequence) for more
stats_df_to_numpy(df, min_tr, max_tr) ==
    IF \E k \in min_tr..max_tr, m \in min_tr..max_tr :
           Cardinality(Slice(df, k, m)) > 1
    THEN Raise("ValueError")
    ELSE Ok([k \in 0..max_tr |-> [m \in 0..max_tr |->
                IF k \in min_tr..max_tr /\ m \in min_tr..max_tr
                   /\ Slice(df, k, m) # {}
                THEN df.rows[CHOOSE i \in Slice(df, k, m) : TRUE].counts
                ELSE 0]])

(***************************************************************************)
(* calculate_overall_gof.                                                  *)
(***************************************************************************)
\* the fit parameters of a density function
ParamSets == {[r0 |-> 1, p |-> Num(1, 2), w |-> Num(1, 2)],
              [r0 |-> 2, p |-> Num(1, 4), w |-> One]}

\* density_func(fix_c) as the fitting layer builds it from params: a
\* negative binomial density over 0..max_tr, truncated at min_tr
density_func(params, fix_c, min_tr, max_tr) ==
    make_negative_binom_density(fix_c + params.r0, params.p, params.w,
                                max_tr, min_tr, None)

\* the store of a finite float into an np.int_ array truncates toward zero
IntCast(x) == IF x.n >= 0 THEN x.n \div x.d ELSE -((-x.n) \div x.d)

\* the ndarray holding f[0], ..., f[hi]: every entry is computed once, when
\* the array is built
RECURSIVE NdArray(_, _)
NdArray(f, hi) ==
    IF hi = 0 THEN 0 :> f[0] ELSE NdArray(f, hi - 1) @@ (hi :> f[hi])

RECURSIVE SumInts(_, _)
SumInts(a, hi) == IF hi < 0 THEN 0 ELSE a[hi] + SumInts(a, hi - 1)

Column(matrix, c) == [i \in DOMAIN matrix |-> matrix[i][c]]

Transpose(matrix) == [i \in DOMAIN matrix |-> [j \in DOMAIN matrix |-> matrix[j][i]]]

\* ndarray.flatten(): row-major
Flatten(matrix) ==
    LET n == Cardinality(DOMAIN matrix)
    IN  [j \in 0..(n * n - 1) |-> matrix[j \div n][j % n]]

\* observed of calculate_overall_gof, rv being the count matrix
overall_observed(rv, main_allele) ==
    IF main_allele = "alt" THEN Transpose(rv) ELSE rv

\* density_func(fix_c) * norm, before it is stored into expected
scaled_density(observed, params, fix_c, min_tr, max_tr) ==
    LET norm == SumInts(Column(observed, fix_c), max_tr)
        dens == NdArray(density_func(params, fix_c, min_tr, max_tr), max_tr)
    IN  [i \in 0..max_tr |-> FMul(dens[i], Num(norm, 1))]

\* expected[:, fix_c] after expected[:, fix_c] = density_func(fix_c) * norm
expected_column(observed, params, fix_c, min_tr, max_tr) ==
    LET scaled == scaled_density(observed, params, fix_c, min_tr, max_tr)
    IN  NdArray([i \in 0..max_tr |-> IntCast(scaled[i])], max_tr)

\* expected after the loop: np.zeros(..., dtype=np.int_) with the columns
\* min_tr..max_tr stored
overall_expected(observed, params, min_tr, max_tr) ==
    LET columns == NdArray([c \in 0..max_tr |->
                               IF c \in min_tr..max_tr
                               THEN expected_column(observed, params, c,
                                                    min_tr, max_tr)
                               ELSE [i \in 0..max_tr |-> 0]],
                           max_tr)
    IN  [i \in 0..max_tr |-> [c \in 0..max_tr |-> columns[c][i]]]

\* num_params is None or an integer
NumParams(params, num_params) ==
    IF num_params.t = "None" THEN Cardinality(DOMAIN params) ELSE num_params.v

\* calculate_overall_gof looping over range(min_tr, max_tr)
calculate_overall_gof_exclusive(df, params, main_allele, min_tr, max_tr, num_params) ==
    LET rv == stats_df_to_numpy(df, min_tr, max_tr)
        np == NumParams(params, num_params)
    IN  IF rv.t = "raise" THEN rv
        ELSE IF main_allele \notin {"ref", "alt"} THEN Raise("AssertionError")
        ELSE LET observed == overall_observed(rv.v, main_allele)
                 expected == overall_expected(observed, params, min_tr, max_tr)
                 score(c) == calculate_gof_for_point_fit(
                                 Column(observed, c), Column(expected, c),
                                 SumInts(Column(observed, c), max_tr), np, min_tr)
             IN  OkGofs([key \in {ToString(c) : c \in min_tr..(max_tr - 1)} |->
                            score(CHOOSE c \in min_tr..(max_tr - 1) :
                                      ToString(c) = key)],
                        calculate_gof_for_point_fit(
                            Flatten(observed), Flatten(expected),
                            SumInts(Flatten(observed),
                                    (max_tr + 1) * (max_tr + 1) - 1),
                            np, min_tr))

calculate_overall_gof(df, params, main_allele, min_tr, max_tr, num_params) ==
    LET rv == stats_df_to_numpy(df, min_tr, max_tr)
        np == NumParams(params, num_params)
    IN  IF rv.t = "raise" THEN rv
        ELSE IF main_allele \notin {"ref", "alt"} THEN Raise("AssertionError")
        ELSE LET observed == overall_observed(rv.v, main_allele)
                 expected == overall_expected(observed, params, min_tr, max_tr)
                 score(c) == calculate_gof_for_point_fit(
                                 Column(observed, c), Column(expected, c),
                                 SumInts(Column(observed, c), max_tr), np, min_tr)
             IN  OkGofs([key \in {ToString(c) : c \in min_tr..max_tr} |->
                            score(CHOOSE c \in min_tr..max_tr : ToString(c) = key)],
                        calculate_gof_for_point_fit(
                            Flatten(observed), Flatten(expected),
                            SumInts(Flatten(observed),
                                    (max_tr + 1) * (max_tr + 1) - 1),
                            np, min_tr))

(***************************************************************************)
(* Calls on the caller's statistics table.                                 *)
(***************************************************************************)
InitTable ==
    /\ stats_df \in Tables
    /\ call = NoCall
    /\ frame = NoFrame
    /\ ret = NoRet

GetCountsDistFromDf ==
    /\ Idle
    /\ call' = [op |-> "get_counts_dist_from_df", stats_df |-> stats_df]
    /\ stats_df' = with_cover(stats_df)
    /\ frame' = NoFrame
    /\ ret' = get_counts_dist_from_df(with_cover(stats_df))

StatsDfToNumpy ==
    /\ Idle
    /\ \E max_tr \in 0..MaxTr :
      \E min_tr \in 0..max_tr :
        /\ call' = [op |-> "stats_df_to_numpy", stats_df |-> stats_df,
                    min_tr |-> min_tr, max_tr |-> max_tr]
        /\ frame' = NoFrame
        /\ ret' = stats_df_to_numpy(stats_df, min_tr, max_tr)
        /\ UNCHANGED stats_df

Alleles == {"ref", "alt", "other"}

NumParamsArgs == {None, [t |-> "int", v |-> 0]}

CalculateOverallGof ==
    /\ Idle
    /\ \E max_tr \in 0..MaxTr, params \in ParamSets, main_allele \in Alleles,
          num_params \in NumParamsArgs :
      \E min_tr \in 0..max_tr :
        /\ call' = [op |-> "calculate_overall_gof", stats_df |-> stats_df,
                    params |-> params, main_allele |-> main_allele,
                    min_tr |-> min_tr, max_tr |-> max_tr,
                    num_params |-> num_params]
        /\ frame' = NoFrame
        /\ ret' = calculate_overall_gof(stats_df, params, main_allele,
                                        min_tr, max_tr, num_params)
        /\ UNCHANGED stats_df

NextTable ==
    \/ GetCountsDistFromDf
    \/ StatsDfToNumpy
    \/ CalculateOverallGof
    \/ Return

SpecTable == InitTable /\ [][NextTable]_vars

(***************************************************************************)
(* Properties.                                                             *)
(***************************************************************************)
IsZero(x) == x.t = "num" /\ x.n = 0

InRange(call_) == call_.min_tr..call_.max_tr

\* no (ref, alt) pair occurs in more than one row
NoDuplicates(df) ==
    \A i, j \in 1..Len(df.rows) :
        (df.rows[i].ref = df.rows[j].ref /\ df.rows[i].alt = df.rows[j].alt) => i = j

\* the counts of the row with ref = k and alt = m of a table without
\* duplicates, 0 when there is none
CountsAt(df, k, m) ==
    IF \E i \in 1..Len(df.rows) : df.rows[i].ref = k /\ df.rows[i].alt = m
    THEN df.rows[CHOOSE i \in 1..Len(df.rows) :
                     df.rows[i].ref = k /\ df.rows[i].alt = m].counts
    ELSE 0

\* C1: for a table without duplicate (ref, alt) pairs and 0 <= min_tr <= max_tr,
\* stats_df_to_numpy returns a (max_tr+1) x (max_tr+1) matrix whose cell (k, m)
\* with min_tr <= k, m <= max_tr holds the counts of the row ref = k, alt = m
\* (0 without such a row) and whose cells with k < min_tr or m < min_tr hold 0.
C1_MatrixHoldsCounts ==
    (call.op = "stats_df_to_numpy" /\ NoDuplicates(call.stats_df)) =>
        /\ ret.t = "ok"
        /\ DOMAIN ret.v = 0..call.max_tr
        /\ \A k \in 0..call.max_tr :
            /\ DOMAIN ret.v[k] = 0..call.max_tr
            /\ \A m \in 0..call.max_tr :
                ret.v[k][m] = IF k >= call.min_tr /\ m >= call.min_tr
                              THEN CountsAt(call.stats_df, k, m)
                              ELSE 0

\* a table without duplicates with a row inside the range and a row below
\* min_tr, converted
C1_Witness ==
    /\ call.op = "stats_df_to_numpy"
    /\ NoDuplicates(call.stats_df)
    /\ call.min_tr >= 1
    /\ \E i, j \in 1..Len(call.stats_df.rows) :
        /\ call.stats_df.rows[i].ref \in InRange(call)
        /\ call.stats_df.rows[i].alt \in InRange(call)
        /\ call.stats_df.rows[j].ref < call.min_tr
        /\ ret.t = "ok"
        /\ ret.v[call.stats_df.rows[i].ref][call.stats_df.rows[i].alt]
               = call.stats_df.rows[i].counts

DuplicateInRange(call_) ==
    \E i, j \in 1..Len(call_.stats_df.rows) :
        /\ i # j
        /\ call_.stats_df.rows[i].ref = call_.stats_df.rows[j].ref
        /\ call_.stats_df.rows[i].alt = call_.stats_df.rows[j].alt
        /\ call_.stats_df.rows[i].ref \in InRange(call_)
        /\ call_.stats_df.rows[i].alt \in InRange(call_)

\* C2: stats_df_to_numpy raises, and returns no matrix, whenever more than one
\* row of the table matches some (ref, alt) pair inside [min_tr, max_tr]^2.
C2_DuplicateRaises ==
    (call.op = "stats_df_to_numpy" /\ DuplicateInRange(call)) => ret.t = "raise"

\* two rows of one pair inside the range, with different counts
C2_Witness ==
    /\ call.op = "stats_df_to_numpy"
    /\ DuplicateInRange(call)
    /\ \E i, j \in 1..Len(call.stats_df.rows) :
        /\ call.stats_df.rows[i].ref = call.stats_df.rows[j].ref
        /\ call.stats_df.rows[i].alt = call.stats_df.rows[j].alt
        /\ call.stats_df.rows[i].counts # call.stats_df.rows[j].counts
    /\ ret.t = "raise"

DensityBuilders ==
    {"make_negative_binom_density", "make_cover_negative_binom_density",
     "make_geom_dens"}

\* C3: for each density builder, a truncation normalizer of exactly zero
\* yields an array whose entries are all 0: no nan, no infinity.
C3_ZeroNormalizerAllZero ==
    (call.op \in DensityBuilders /\ IsZero(frame.norm)) =>
        /\ ret.t = "ok"
        /\ \A k \in DOMAIN ret.v : IsZero(ret.v[k])

\* C4: with 0 <= left_most <= size_of_counts and a nonzero normalizer,
\* make_negative_binom_density returns size_of_counts + 1 entries, 0 below
\* left_most, none negative, summing to 1 over left_most..size_of_counts.
C4_NegBinDensitySumsToOne ==
    (/\ call.op = "make_negative_binom_density"
     /\ call.left_most <= call.size_of_counts
     /\ ~IsZero(frame.norm)) =>
        /\ ret.t = "ok"
        /\ DOMAIN ret.v = 0..call.size_of_counts
        /\ \A k \in DOMAIN ret.v : IsNum(ret.v[k]) /\ ret.v[k].n >= 0
        /\ \A k \in 0..(call.left_most - 1) : IsZero(ret.v[k])
        /\ FSum(ret.v, call.left_most, call.size_of_counts) = One

\* a truncated two-mode mixture: both weights positive, p2 given and
\* different from p, left_most >= 1
C4_Witness ==
    /\ call.op = "make_negative_binom_density"
    /\ call.left_most >= 1
    /\ call.left_most < call.size_of_counts
    /\ call.w.n > 0 /\ call.w.n < call.w.d
    /\ call.p2.t = "num" /\ call.p2 # call.p
    /\ ~IsZero(frame.norm)
    /\ FSum(ret.v, call.left_most, call.size_of_counts) = One

\* the total mass of w * geom + (1 - w) * negbin, from the masses of the parts
MixtureMass(call_) ==
    FAdd(FMul(call_.w, ArraySum(call_.geom_dens)),
         FMul(FSub(One, call_.w), ArraySum(call_.negbin_dens)))

JointlyNonzero(counts_array, expected, left_most) ==
    {i \in DOMAIN counts_array :
        i >= left_most /\ counts_array[i] # 0 /\ expected[i] # 0}

\* C6: calculate_gof_for_point_fit returns 0 whenever at most
\* number_of_params + 1 indices i >= left_most have both a nonzero observed
\* count and a nonzero expected value; entries below left_most never enter
\* the statistic.
C6_TooFewPointsScoreZero ==
    call.op = "calculate_gof_for_point_fit" =>
        /\ Cardinality(JointlyNonzero(call.counts_array, call.expected,
                                      call.left_most))
               <= call.number_of_params + 1
           => IsZero(ret.v)
        /\ ret.v.t = "sqrt" =>
               \A term \in ret.v.stat.terms : term[1] >= call.left_most

\* an entry below left_most that is nonzero in both arrays, too few points at
\* or above left_most, a norm above 1: the score is 0
C6_Witness ==
    /\ call.op = "calculate_gof_for_point_fit"
    /\ call.norm > 1
    /\ call.left_most >= 1
    /\ \E i \in DOMAIN call.counts_array :
        i < call.left_most /\ call.counts_array[i] # 0 /\ call.expected[i] # 0
    /\ Cardinality(JointlyNonzero(call.counts_array, call.expected,
                                  call.left_most)) = call.number_of_params + 1
    /\ IsZero(ret.v)

\* the cell (i, c) of observed, straight from the table
ObservedAt(call_, i, c) ==
    IF i \in InRange(call_) /\ c \in InRange(call_)
    THEN IF call_.main_allele = "alt" THEN CountsAt(call_.stats_df, c, i)
         ELSE CountsAt(call_.stats_df, i, c)
    ELSE 0

ObservedColumn(call_, c) == [i \in 0..call_.max_tr |-> ObservedAt(call_, i, c)]

ObservedMatrix(call_) ==
    [i \in 0..call_.max_tr |-> [c \in 0..call_.max_tr |-> ObservedAt(call_, i, c)]]

ExpectedColumn(call_, c) ==
    expected_column(ObservedMatrix(call_), call_.params, c,
                    call_.min_tr, call_.max_tr)

\* C7: for a table without duplicate rows and a recognized main_allele,
\* calculate_overall_gof returns one score for each fixed value of
\* [min_tr, max_tr], keyed by that value, and an overall score; a fixed value
\* whose observed column is empty or has too few jointly nonzero cells scores 0.
C7_OverallGofCompletes ==
    (/\ call.op = "calculate_overall_gof"
     /\ NoDuplicates(call.stats_df)
     /\ call.main_allele \in {"ref", "alt"}) =>
        /\ ret.t = "ok"
        /\ DOMAIN ret = {"t", "point_gofs", "overall_gof"}
        /\ DOMAIN ret.point_gofs = {ToString(c) : c \in InRange(call)}
        /\ \A c \in InRange(call) :
            (\/ SumInts(ObservedColumn(call, c), call.max_tr) = 0
             \/ Cardinality(JointlyNonzero(ObservedColumn(call, c),
                                           ExpectedColumn(call, c), call.min_tr))
                    <= NumParams(call.params, call.num_params) + 1)
                => IsZero(ret.point_gofs[ToString(c)])

\* an empty column scored 0 beside a column scored by the RMSEA formula
C7_Witness ==
    /\ call.op = "calculate_overall_gof"
    /\ NoDuplicates(call.stats_df)
    /\ ret.t = "ok"
    /\ \E c, e \in InRange(call) :
        /\ SumInts(ObservedColumn(call, e), call.max_tr) = 0
        /\ IsZero(ret.point_gofs[ToString(e)])
        /\ ret.point_gofs[ToString(c)].t = "sqrt"

\* C8: no call changes the caller's table.
C8_CallsLeaveTableUnchanged == [][stats_df' = stats_df]_vars

\* C9: for every fixed value c of [min_tr, max_tr] the expected vector handed
\* to calculate_gof_for_point_fit is density_func(c) times the total of the
\* observed column c, as computed.
C9_ExpectedIsScaledDensity ==
    (call.op = "calculate_overall_gof" /\ ret.t = "ok") =>
        \A c \in InRange(call) : \A i \in 0..call.max_tr :
            Num(ExpectedColumn(call, c)[i], 1)
                = scaled_density(ObservedMatrix(call), call.params, c,
                                 call.min_tr, call.max_tr)[i]

\* C10: rmsea_gof returns 0 when norm <= 1, and a score computed through
\* calculate_gof_for_point_fit has df >= 1 and a strictly positive
\* denominator df * (norm - 1).
C10_DenominatorPositive ==
    /\ (call.op = "rmsea_gof" /\ call.norm <= 1) => IsZero(ret.v)
    /\ call.op = "calculate_gof_for_point_fit" =>
        /\ ret.v.t \in {"num", "sqrt"}
        /\ ret.v.t = "sqrt" => (ret.v.df >= 1 /\ ret.v.den > 0)

\* the division evaluated with the fewest points that pass the guard
C10_Witness ==
    /\ call.op = "calculate_gof_for_point_fit"
    /\ Cardinality(frame.idxs) = call.number_of_params + 2
    /\ call.norm = 2
    /\ ret.v.t = "sqrt"
    /\ ret.v.df = 1
    /\ ret.v.den = 1

====
